---- MODULE Spec2Model ----
(***************************************************************************)
(* DNS-SD service announcement of Dire Wolf: the service batch built from  *)
(* the configuration (dns_sd_common.c), the Avahi backend (variant A,      *)
(* dns_sd_avahi.c) and the macOS backend (variant B, dns_sd_macos.c), each *)
(* with its event thread and its termination request dns_sd_term.         *)
(*                                                                         *)
(* C arrays are functions over 0..n-1, C strings are TLA+ strings, a NULL  *)
(* char pointer is NullName, a NULL object pointer is "null".              *)
(***************************************************************************)
EXTENDS Integers, Sequences, FiniteSets, TLC

\* ------------------------------------------------------------------ bounds

\* Number of KISS TCP port slots of the configuration (config.h, scaled down).
MAX_KISS_TCP_PORTS == 2

\* Calls of dns_sd_term made by threads outside this subsystem.
MaxTermCalls == 1

\* Daemon notifications delivered to one session.
MaxEvents == 2

\* Collision answers the daemon gives to add requests in one session.
MaxCollisions == 1

\* ------------------------------------------------------- program constants

MAX_DNS_SD_SERVICES == 1 + MAX_KISS_TCP_PORTS

SNAME_SIZE == 128

TEMP_SIZE == 64

HOSTNAME_SIZE == 51

DNS_SD_TYPE_AGWPE == "_agwpe._tcp"

DNS_SD_TYPE_KISS == "_kiss-tnc._tcp"

NullName == "(null)"

Slots == 0 .. (MAX_DNS_SD_SERVICES - 1)

KissIdx == 0 .. (MAX_KISS_TCP_PORTS - 1)

Min(a, b) == IF a < b THEN a ELSE b

\* ------------------------------------------------------------ C strings

\* strlcpy(dst, src, size): at most size-1 characters of src.
strlcpy(src, size) == SubSeq(src, 1, Min(Len(src), size - 1))

\* strlcat(dst, src, size): dst followed by src, at most size-1 characters.
strlcat(dst, src, size) == SubSeq(dst \o src, 1, Min(Len(dst) + Len(src), size - 1))

\* snprintf(buf, size, "<prefix>%s", arg): at most size-1 characters.
snprintf(prefix, arg, size) == SubSeq(prefix \o arg, 1, Min(Len(prefix) + Len(arg), size - 1))

\* Index of the first occurrence of character c in s, 0 when there is none.
RECURSIVE strchrFrom(_, _, _)
strchrFrom(s, c, i) ==
    IF i > Len(s) THEN 0
    ELSE IF SubSeq(s, i, i) = c THEN i
    ELSE strchrFrom(s, c, i + 1)

strchr(s, c) == strchrFrom(s, c, 1)

\* --------------------------------------------------------- dns_sd_common.c

\* The count of configured services: AGWPE port and every KISS port, non-zero.
RECURSIVE CountKiss(_, _)
CountKiss(mcfg, i) ==
    IF i >= MAX_KISS_TCP_PORTS THEN 0
    ELSE (IF mcfg.kiss_port[i] # 0 THEN 1 ELSE 0) + CountKiss(mcfg, i + 1)

dns_sd_service_count(mcfg) ==
    (IF mcfg.agwpe_port # 0 THEN 1 ELSE 0) + CountKiss(mcfg, 0)

make_service_name(basename, hostname, channel) ==
    LET s0 == IF basename # "" THEN strlcpy(basename, SNAME_SIZE) ELSE "Dire Wolf"
        s1 == IF channel # -1
              THEN strlcat(s0, snprintf(" channel ", ToString(channel), TEMP_SIZE), SNAME_SIZE)
              ELSE s0
        s2 == IF hostname # ""
              THEN strlcat(s1, snprintf(" on ", hostname, TEMP_SIZE), SNAME_SIZE)
              ELSE s1
    IN  s2

\* gethostname() into hostname[51], forced termination, domain part removed.
LocalHostname(h) ==
    IF h.err = 0
    THEN LET t   == strlcpy(h.name, HOSTNAME_SIZE)
             dot == strchr(t, ".")
         IN  IF dot # 0 THEN SubSeq(t, 1, dot - 1) ELSE t
    ELSE ""

\* calloc(sizeof(dns_sd_service_t), MAX_DNS_SD_SERVICES)
ZeroCtx == [i \in Slots |-> [port |-> 0, channel |-> 0, name |-> NullName]]

\* The loop over the KISS ports: i is the port index, j the next free slot.
RECURSIVE FillKiss(_, _, _, _, _)
FillKiss(c, mcfg, hostname, i, j) ==
    IF i >= MAX_KISS_TCP_PORTS THEN c
    ELSE IF mcfg.kiss_port[i] # 0
         THEN FillKiss([c EXCEPT ![j] = [port    |-> mcfg.kiss_port[i],
                                         channel |-> mcfg.kiss_chan[i],
                                         name    |-> make_service_name(mcfg.dns_sd_name, hostname,
                                                                       mcfg.kiss_chan[i])]],
                       mcfg, hostname, i + 1, j + 1)
         ELSE FillKiss(c, mcfg, hostname, i + 1, j)

\* As dns_sd_create_context, with the KISS ports filled in from slot 0.
dns_sd_create_context_FromSlot0(mcfg, h) ==
    LET hostname == LocalHostname(h)
        c0 == IF mcfg.agwpe_port # 0
              THEN [ZeroCtx EXCEPT ![0] = [port    |-> mcfg.agwpe_port,
                                           channel |-> -1,
                                           name    |-> make_service_name(mcfg.dns_sd_name, hostname, -1)]]
              ELSE ZeroCtx
    IN  FillKiss(c0, mcfg, hostname, 0, 0)

dns_sd_create_context(mcfg, h) ==
    LET hostname == LocalHostname(h)
        c0 == IF mcfg.agwpe_port # 0
              THEN [ZeroCtx EXCEPT ![0] = [port    |-> mcfg.agwpe_port,
                                           channel |-> -1,
                                           name    |-> make_service_name(mcfg.dns_sd_name, hostname, -1)]]
              ELSE ZeroCtx
    IN  FillKiss(c0, mcfg, hostname, 0, 1)

\* ------------------------------------------------------------------ state

VARIABLES
    variant,     \* "A": Avahi backend, "B": macOS backend, "build": the batch builder alone
    mc,          \* struct misc_config_s: agwpe_port, kiss_port[], kiss_chan[], dns_sd_name
    host,        \* what gethostname() returns: err and name
    count,       \* last value returned by dns_sd_service_count, -1 before any call
    ctx,         \* the array of dns_sd_service_t
    ctxst,       \* its allocation: "none", "live", "freed"
    apc,         \* the thread calling dns_sd_announce
    wpc,         \* the event thread (avahi_mainloop / process_events)
    tpc,         \* the thread calling dns_sd_term from outside
    tcalls,      \* calls of dns_sd_term begun by that thread
    tbegan,      \* when its last call began: "never", "early", "live", "stopped"
    simple_poll, \* A: static AvahiSimplePoll *simple_poll ("null" or "set")
    pollObj,     \* A: the AvahiSimplePoll object: "none", "live", "freed"
    quit,        \* A: the quit flag of the poll object
    client,      \* A: static AvahiClient *client
    clientObj,   \* A: the AvahiClient object
    group,       \* A: static AvahiEntryGroup *group
    groupObj,    \* A: the AvahiEntryGroup object
    entries,     \* A: the services held by the entry group
    gstate,      \* A: the entry group's state
    cb,          \* A: the callback in progress: pc, slot i, thread who
    sd_ref,      \* B: svcs->sd_ref[]: "null", "live", "freed"
    sd_fd,       \* B: svcs->sd_fd[]
    stop_fd,     \* B: static int stop_fd[2]
    pipeObj,     \* B: the pipe behind stop_fd: "none", "open", "closed"
    pipeBytes,   \* B: bytes written to the pipe and not read
    pending,     \* B: the slots whose socket has a daemon event to read
    lastPass,    \* B: what the last pass of the select loop saw and dispatched
    submitted,   \* registrations handed to the daemon: slot, type, name, port
    events,      \* daemon notifications delivered so far
    collisions,  \* collision answers given so far
    reg,         \* A: the client state last notified, the commits issued, the slots
                 \*    whose add was answered with a collision, the adds answered
                 \*    with another error, the resets of the group by client_callback,
                 \*    the entry groups created by avahi_entry_group_new
                 \* B: the DNSServiceRegister calls issued, in order, each with its
                 \*    slot and whether it returned kDNSServiceErr_NoError
    rel,         \* the releases performed, in order: object, slot, thread
    staleUse,    \* dns_sd_term operated on an object that had been released
    lateStale,   \* ... in a call that began after the event thread had finished
    crashed      \* the process was brought down by undefined behaviour

cfgVars == <<variant, mc, host>>

batchVars == <<count, ctx, ctxst>>

termVars == <<tpc, tcalls, tbegan>>

aVars == <<simple_poll, pollObj, quit, client, clientObj, group, groupObj, entries, gstate, cb>>

bVars == <<sd_ref, sd_fd, stop_fd, pipeObj, pipeBytes, pending, lastPass>>

histVars == <<submitted, events, collisions, reg, rel, staleUse, lateStale, crashed>>

vars == <<cfgVars, batchVars, apc, wpc, termVars, aVars, bVars, histVars>>

\* ----------------------------------------------------------------- inputs

\* Configurations used to exercise the batch builder on its own.
BuildConfigs ==
    [agwpe_port  : {0, 8000},
     kiss_port   : [KissIdx -> {0, 8001}],
     kiss_chan   : [KissIdx -> {-1, 0, 1}],
     dns_sd_name : {"", "TNC"}]

HostInputs ==
    {[err |-> 0, name |-> "h"], [err |-> 0, name |-> "h.lan"],
     [err |-> 0, name |-> ""],  [err |-> -1, name |-> ""]}

\* Configurations of the sessions: nothing configured, the AGWPE port alone, the
\* first KISS port alone (slot 0 unused), and the two together, as in the default
\* configuration.  KISS port i serves channel i - 1: the first one all channels.
DynConfigs ==
    {[agwpe_port  |-> a,
      kiss_port   |-> [i \in KissIdx |-> IF i \in k THEN 8001 + i ELSE 0],
      kiss_chan   |-> [i \in KissIdx |-> i - 1],
      dns_sd_name |-> ""] :
        a \in {0, 8000}, k \in {{}, {0}}}

\* As StopFdInit, without the initialiser.
StopFdInit_Zero == [k \in 0 .. 1 |-> 0]

\* static int stop_fd[2] = {-1, -1};
StopFdInit == [k \in 0 .. 1 |-> -1]

InitSession ==
    /\ count = -1
    /\ ctx = ZeroCtx
    /\ ctxst = "none"
    /\ apc = "idle"
    /\ wpc = "none"
    /\ tpc = "idle"
    /\ tcalls = 0
    /\ tbegan = "never"
    /\ simple_poll = "null"
    /\ pollObj = "none"
    /\ quit = FALSE
    /\ client = "null"
    /\ clientObj = "none"
    /\ group = "null"
    /\ groupObj = "none"
    /\ entries = {}
    /\ gstate = "none"
    /\ cb = [pc |-> "none", i |-> 0, who |-> "none", tries |-> 0]
    /\ sd_ref = [i \in Slots |-> "null"]
    /\ sd_fd = [i \in Slots |-> 0]
    /\ stop_fd = StopFdInit
    /\ pipeObj = "none"
    /\ pipeBytes = 0
    /\ pending = {}
    /\ lastPass = [ready |-> {}, dispatched |-> {}, errs |-> {}, stop |-> FALSE]
    /\ submitted = {}
    /\ events = 0
    /\ collisions = 0
    /\ reg = [cstate |-> "CONNECTING", commits |-> 0, collided |-> {}, errors |-> 0, resets |-> 0,
              groups |-> 0, issued |-> <<>>]
    /\ rel = <<>>
    /\ staleUse = FALSE
    /\ lateStale = FALSE
    /\ crashed = FALSE

Init ==
    /\ variant \in {"A", "B"}
    /\ mc \in DynConfigs
    /\ host = [err |-> 0, name |-> "h"]
    /\ InitSession

InitBuild ==
    /\ variant = "build"
    /\ mc \in BuildConfigs
    /\ host \in HostInputs
    /\ InitSession

\* Every choice among the AGWPE port and the first two KISS ports, each with a
\* number of its own: the sessions in which the layout of the batch shows in what
\* is submitted.
WideConfigs ==
    {[agwpe_port  |-> a,
      kiss_port   |-> [i \in KissIdx |-> IF i \in k THEN 8001 + i ELSE 0],
      kiss_chan   |-> [i \in KissIdx |-> i - 1],
      dns_sd_name |-> ""] :
        a \in {0, 8000}, k \in SUBSET {0, 1}}

InitWide ==
    /\ variant \in {"A", "B"}
    /\ mc \in WideConfigs
    /\ host = [err |-> 0, name |-> "h"]
    /\ InitSession

\* --------------------------------------------------------------- helpers

ActiveSlots(c) == {i \in Slots : c[i].port # 0}

NamedSlots(c) == {i \in Slots : c[i].name # NullName}

\* As ServiceType, with every slot announced as a KISS service.
ServiceType_AllKiss(i) == DNS_SD_TYPE_KISS

\* i == 0 ? DNS_SD_TYPE_AGWPE : DNS_SD_TYPE_KISS
ServiceType(i) == IF i = 0 THEN DNS_SD_TYPE_AGWPE ELSE DNS_SD_TYPE_KISS

Release(obj, idx, who) == [obj |-> obj, idx |-> idx, who |-> who]

\* The releases of a set of slots, in ascending slot order.
RECURSIVE ReleaseEach(_, _, _)
ReleaseEach(obj, S, who) ==
    IF S = {} THEN <<>>
    ELSE LET i == CHOOSE x \in S : \A y \in S : x <= y
         IN  <<Release(obj, i, who)>> \o ReleaseEach(obj, S \ {i}, who)

\* The session is over: the event thread has finished its teardown, or
\* dns_sd_announce has finished the teardown it ran itself.
Stopped == wpc = "stopped" \/ (apc = "returned" /\ ctxst = "freed")

\* Where the session is, as a caller of dns_sd_term finds it: over ("stopped"),
\* announced with its event thread started ("live"), or neither ("early").
SessionPhase ==
    IF Stopped THEN "stopped"
    ELSE IF apc = "returned" /\ wpc # "none" THEN "live"
    ELSE "early"

\* A step of backend v is a step of a process that is still alive.
Backend(v) == variant = v /\ ~crashed

\* -------------------------------------------------- the builder on its own

BuildCount ==
    /\ variant = "build"
    /\ apc = "idle"
    /\ count' = dns_sd_service_count(mc)
    /\ apc' = "counted"
    /\ UNCHANGED <<cfgVars, ctx, ctxst, wpc, termVars, aVars, bVars, histVars>>

BuildCreate ==
    /\ variant = "build"
    /\ apc = "counted"
    /\ ctx' = dns_sd_create_context(mc, host)
    /\ ctxst' = "live"
    /\ apc' = "built"
    /\ UNCHANGED <<cfgVars, count, wpc, termVars, aVars, bVars, histVars>>

NextBuild == BuildCount \/ BuildCreate

SpecBuild == InitBuild /\ [][NextBuild]_vars

\* ------------------------------------------- dns_sd_term, called from outside

\* As NothingToAnnounce, with the wrong comparison.
NothingToAnnounce_Negative(mcfg) == dns_sd_service_count(mcfg) < 0

\* if (dns_sd_service_count(mc) == 0) return;
NothingToAnnounce(mcfg) == dns_sd_service_count(mcfg) = 0

\* A: if (simple_poll)          B: if (stop_fd[1] != -1)
TermSeesSession ==
    IF variant = "A" THEN simple_poll # "null" ELSE stop_fd[1] # -1

\* The test at the head of dns_sd_term.  When it fails the call is over.
T_Check ==
    /\ (Backend("A") \/ Backend("B"))
    /\ tpc = "idle"
    /\ tcalls < MaxTermCalls
    /\ tcalls' = tcalls + 1
    /\ tbegan' = SessionPhase
    /\ tpc' = IF TermSeesSession THEN "use" ELSE "idle"
    /\ UNCHANGED <<cfgVars, batchVars, apc, wpc, aVars, bVars, histVars>>

\* As T_Quit, with dns_sd_term freeing the poll object itself.
T_Quit_Frees ==
    /\ Backend("A")
    /\ tpc = "use"
    /\ tpc' = "idle"
    /\ quit' = TRUE
    /\ pollObj' = "freed"
    /\ simple_poll' = "null"
    /\ rel' = rel \o <<[obj |-> "simple_poll", idx |-> -1, who |-> "term"]>>
    /\ UNCHANGED <<cfgVars, batchVars, apc, wpc, tcalls, tbegan, bVars>>
    /\ UNCHANGED <<client, clientObj, group, groupObj, entries, gstate, cb>>
    /\ UNCHANGED <<submitted, events, collisions, reg, staleUse, lateStale, crashed>>

\* A: avahi_simple_poll_quit(simple_poll) sets the quit flag of the poll object and
\* wakes the loop.  On an object that was freed meanwhile the access is undefined:
\* it passes unnoticed or brings the process down.
T_Quit ==
    /\ Backend("A")
    /\ tpc = "use"
    /\ tpc' = "idle"
    /\ IF pollObj = "live"
       THEN /\ quit' = TRUE
            /\ UNCHANGED <<staleUse, lateStale, crashed>>
       ELSE /\ staleUse' = TRUE
            /\ lateStale' = (lateStale \/ tbegan = "stopped")
            /\ crashed' \in BOOLEAN
            /\ UNCHANGED quit
    /\ UNCHANGED <<cfgVars, batchVars, apc, wpc, tcalls, tbegan, bVars>>
    /\ UNCHANGED <<simple_poll, pollObj, client, clientObj, group, groupObj, entries, gstate, cb>>
    /\ UNCHANGED <<submitted, events, collisions, reg, rel>>

\* B: write(stop_fd[1], &val, sizeof(val)).  On a descriptor that was closed
\* meanwhile the write goes to whatever the number refers to now.
T_Write ==
    /\ Backend("B")
    /\ tpc = "use"
    /\ tpc' = "idle"
    /\ IF pipeObj = "open"
       THEN /\ pipeBytes' = pipeBytes + 1
            /\ UNCHANGED <<staleUse, lateStale>>
       ELSE /\ staleUse' = TRUE
            /\ lateStale' = (lateStale \/ tbegan = "stopped")
            /\ UNCHANGED pipeBytes
    /\ UNCHANGED <<cfgVars, batchVars, apc, wpc, tcalls, tbegan, aVars>>
    /\ UNCHANGED <<sd_ref, sd_fd, stop_fd, pipeObj, pending, lastPass>>
    /\ UNCHANGED <<submitted, events, collisions, reg, rel, crashed>>

\* ------------------------------------------------------ B: dns_sd_macos.c

\* As RegisterCalls, with the loop left at the first call that fails.
RECURSIVE RegisterCalls_StopAtFailure(_, _, _)
RegisterCalls_StopAtFailure(c, ok, i) ==
    IF i >= MAX_DNS_SD_SERVICES THEN <<>>
    ELSE IF c[i].port = 0 THEN RegisterCalls_StopAtFailure(c, ok, i + 1)
    ELSE IF i \in ok THEN <<[slot |-> i, ok |-> TRUE]>> \o RegisterCalls_StopAtFailure(c, ok, i + 1)
    ELSE <<[slot |-> i, ok |-> FALSE]>>

\* The DNSServiceRegister calls made by the loop of dns_sd_announce over the batch
\* c from slot i on (ok: the slots for which the call succeeds).
RECURSIVE RegisterCalls(_, _, _)
RegisterCalls(c, ok, i) ==
    IF i >= MAX_DNS_SD_SERVICES THEN <<>>
    ELSE IF c[i].port = 0 THEN RegisterCalls(c, ok, i + 1)
    ELSE <<[slot |-> i, ok |-> i \in ok]>> \o RegisterCalls(c, ok, i + 1)

\* dns_sd_announce: nothing to do, or build the batch, call DNSServiceRegister for
\* the slots with a port, keep the handle of each call that succeeds in
\* svcs->sd_ref[i] (calloc leaves the others NULL), and start the thread.
B_Announce ==
    /\ Backend("B")
    /\ apc = "idle"
    /\ count' = dns_sd_service_count(mc)
    /\ apc' = "returned"
    /\ IF NothingToAnnounce(mc)
       THEN UNCHANGED <<ctx, ctxst, sd_ref, submitted, reg, wpc>>
       ELSE LET c == dns_sd_create_context(mc, host)
            IN  /\ ctx' = c
                /\ ctxst' = "live"
                /\ \E ok \in SUBSET ActiveSlots(c) :
                       LET calls == RegisterCalls(c, ok, 0)
                           n     == Len(calls)
                       IN  /\ reg' = [reg EXCEPT !.issued = @ \o calls]
                           /\ submitted' = submitted \cup
                                  {[slot |-> calls[k].slot, type |-> ServiceType(calls[k].slot),
                                    name |-> c[calls[k].slot].name,
                                    port |-> c[calls[k].slot].port] : k \in 1 .. n}
                           /\ sd_ref' = [i \in Slots |->
                                  IF \E k \in 1 .. n : calls[k].slot = i /\ calls[k].ok
                                  THEN "live" ELSE "null"]
                /\ wpc' = "populate"
    /\ UNCHANGED <<cfgVars, termVars, aVars>>
    /\ UNCHANGED <<sd_fd, stop_fd, pipeObj, pipeBytes, pending, lastPass>>
    /\ UNCHANGED <<events, collisions, rel, staleUse, lateStale, crashed>>

\* process_events: svcs->sd_fd[i] = DNSServiceRefSockFD(svcs->sd_ref[i])
B_Populate ==
    /\ Backend("B")
    /\ wpc = "populate"
    /\ sd_fd' = [i \in Slots |-> IF sd_ref[i] # "null" THEN 10 + i ELSE sd_fd[i]]
    /\ wpc' = "pipe"
    /\ UNCHANGED <<cfgVars, batchVars, apc, termVars, aVars, histVars>>
    /\ UNCHANGED <<sd_ref, stop_fd, pipeObj, pipeBytes, pending, lastPass>>

\* process_events: result = pipe(stop_fd).  When it fails stop_fd stays {-1, -1} and
\* the loop does FD_SET(-1, ...), which is undefined: it passes unnoticed, and the
\* stop descriptor is then never seen ready, or it brings the process down.
B_Pipe ==
    /\ Backend("B")
    /\ wpc = "pipe"
    /\ wpc' = "select"
    /\ \E ok \in BOOLEAN :
           IF ok
           THEN /\ stop_fd' = [k \in 0 .. 1 |-> 20 + k]
                /\ pipeObj' = "open"
                /\ UNCHANGED crashed
           ELSE /\ crashed' \in BOOLEAN
                /\ UNCHANGED <<stop_fd, pipeObj>>
    /\ UNCHANGED <<cfgVars, batchVars, apc, termVars, aVars>>
    /\ UNCHANGED <<sd_ref, sd_fd, pipeBytes, pending, lastPass>>
    /\ UNCHANGED <<submitted, events, collisions, reg, rel, staleUse, lateStale>>

\* The daemon makes the socket of a tracked registration readable.
B_DaemonEvent ==
    /\ Backend("B")
    /\ wpc \in {"populate", "pipe", "select"}
    /\ events < MaxEvents
    /\ \E i \in Slots :
           /\ sd_ref[i] = "live"
           /\ i \notin pending
           /\ pending' = pending \cup {i}
    /\ events' = events + 1
    /\ UNCHANGED <<cfgVars, batchVars, apc, wpc, termVars, aVars>>
    /\ UNCHANGED <<sd_ref, sd_fd, stop_fd, pipeObj, pipeBytes, lastPass>>
    /\ UNCHANGED <<submitted, collisions, reg, rel, staleUse, lateStale, crashed>>

\* FD_ISSET(stop_fd[0], &readfds) after select() returned
StopReady == pipeObj = "open" /\ stop_fd[0] # -1 /\ pipeBytes > 0

\* FD_ISSET(svcs->sd_fd[i], &readfds) for the slots the loop watches
ReadySlots == {i \in Slots : sd_fd[i] > 0 /\ i \in pending}

\* As Dispatched, with the for loop left at the first error.
Dispatched_BreakOnError(ready, errs) == {i \in ready : \A j \in errs : i <= j}

\* The slots the for loop hands to DNSServiceProcessResult in a pass with the slots
\* of ready readable and an error reported for those of errs: an error sets
\* stop_now and the loop goes on to the remaining slots.
Dispatched(ready, errs) == ready

\* As B_SelectPass, with the ready slots dispatched before the stop descriptor
\* is looked at.
B_SelectPass_DispatchFirst ==
    /\ Backend("B")
    /\ wpc = "select"
    /\ StopReady \/ ReadySlots # {}
    /\ \E errs \in SUBSET ReadySlots :
           /\ lastPass' = [ready |-> ReadySlots, dispatched |-> ReadySlots, errs |-> errs,
                           stop |-> StopReady]
           /\ pending' = pending \ ReadySlots
           /\ wpc' = IF StopReady \/ errs # {} THEN "cleanup_refs" ELSE "select"
    /\ UNCHANGED <<cfgVars, batchVars, apc, termVars, aVars, histVars>>
    /\ UNCHANGED <<sd_ref, sd_fd, stop_fd, pipeObj, pipeBytes>>

\* One pass of the loop in which select() returns > 0.  The stop descriptor is
\* looked at first; otherwise every ready slot is handed to
\* DNSServiceProcessResult (errs: the slots for which it reports an error).
B_SelectPass ==
    /\ Backend("B")
    /\ wpc = "select"
    /\ StopReady \/ ReadySlots # {}
    /\ IF StopReady
       THEN /\ lastPass' = [ready |-> ReadySlots, dispatched |-> {}, errs |-> {}, stop |-> TRUE]
            /\ wpc' = "cleanup_refs"
            /\ UNCHANGED pending
       ELSE \E errs \in SUBSET ReadySlots :
                /\ lastPass' = [ready |-> ReadySlots, dispatched |-> Dispatched(ReadySlots, errs),
                                errs |-> errs \cap Dispatched(ReadySlots, errs), stop |-> FALSE]
                /\ pending' = pending \ Dispatched(ReadySlots, errs)
                /\ wpc' = IF errs # {} THEN "cleanup_refs" ELSE "select"
    /\ UNCHANGED <<cfgVars, batchVars, apc, termVars, aVars, histVars>>
    /\ UNCHANGED <<sd_ref, sd_fd, stop_fd, pipeObj, pipeBytes>>

\* select() returns <= 0 with errno other than EINTR, the timeout of SELECT_TIMEOUT
\* seconds included: the loop ends.  (With EINTR the loop goes round unchanged.)
B_SelectFail ==
    /\ Backend("B")
    /\ wpc = "select"
    /\ wpc' = "cleanup_refs"
    /\ UNCHANGED <<cfgVars, batchVars, apc, termVars, aVars, bVars, histVars>>

\* The clean up at the end of process_events, statement by statement.
B_CleanupRefs ==
    /\ Backend("B")
    /\ wpc = "cleanup_refs"
    /\ rel' = rel \o ReleaseEach("sd_ref", {i \in Slots : sd_ref[i] # "null"}, "worker")
    /\ sd_ref' = [i \in Slots |-> IF sd_ref[i] # "null" THEN "freed" ELSE "null"]
    /\ wpc' = "cleanup_names"
    /\ UNCHANGED <<cfgVars, batchVars, apc, termVars, aVars>>
    /\ UNCHANGED <<sd_fd, stop_fd, pipeObj, pipeBytes, pending, lastPass>>
    /\ UNCHANGED <<submitted, events, collisions, reg, staleUse, lateStale, crashed>>

B_CleanupNames ==
    /\ Backend("B")
    /\ wpc = "cleanup_names"
    /\ rel' = rel \o ReleaseEach("name", NamedSlots(ctx), "worker")
    /\ wpc' = "cleanup_ctx"
    /\ UNCHANGED <<cfgVars, batchVars, apc, termVars, aVars, bVars>>
    /\ UNCHANGED <<submitted, events, collisions, reg, staleUse, lateStale, crashed>>

B_CleanupCtx ==
    /\ Backend("B")
    /\ wpc = "cleanup_ctx"
    /\ rel' = rel \o <<Release("ctx", -1, "worker"), Release("svcs", -1, "worker")>>
    /\ ctxst' = "freed"
    /\ wpc' = "cleanup_fds"
    /\ UNCHANGED <<cfgVars, count, ctx, apc, termVars, aVars, bVars>>
    /\ UNCHANGED <<submitted, events, collisions, reg, staleUse, lateStale, crashed>>

\* close(stop_fd[0]); close(stop_fd[1]);  stop_fd keeps the numbers.
B_CleanupFds ==
    /\ Backend("B")
    /\ wpc = "cleanup_fds"
    /\ pipeObj' = IF pipeObj = "open" THEN "closed" ELSE pipeObj
    /\ rel' = IF pipeObj = "open" THEN rel \o <<Release("stop_fd", -1, "worker")>> ELSE rel
    /\ wpc' = "stopped"
    /\ UNCHANGED <<cfgVars, batchVars, apc, termVars, aVars>>
    /\ UNCHANGED <<sd_ref, sd_fd, stop_fd, pipeBytes, pending, lastPass>>
    /\ UNCHANGED <<submitted, events, collisions, reg, staleUse, lateStale, crashed>>

B_Worker ==
    \/ B_Populate
    \/ B_Pipe
    \/ B_SelectPass
    \/ B_CleanupRefs
    \/ B_CleanupNames
    \/ B_CleanupCtx
    \/ B_CleanupFds

NextB == B_Announce \/ B_Worker \/ B_DaemonEvent \/ B_SelectFail

\* ------------------------------------------------------ A: dns_sd_avahi.c

Digits == {"0", "1", "2", "3", "4", "5", "6", "7", "8", "9"}

IsNumber(t) == Len(t) > 0 /\ \A k \in 1 .. Len(t) : SubSeq(t, k, k) \in Digits

RECURSIVE Atoi(_)
Atoi(t) ==
    IF Len(t) = 0 THEN 0
    ELSE 10 * Atoi(SubSeq(t, 1, Len(t) - 1))
         + (CHOOSE d \in 0 .. 9 : ToString(d) = SubSeq(t, Len(t), Len(t)))

\* Index of the last " #" in s, 0 when there is none.
RECURSIVE LastHash(_, _)
LastHash(s, i) ==
    IF i < 1 THEN 0
    ELSE IF SubSeq(s, i, i + 1) = " #" THEN i
    ELSE LastHash(s, i - 1)

\* As avahi_alternative_service_name, with the name given back as it is.
avahi_alternative_service_name_Same(s) == s

\* avahi_alternative_service_name(): "name" becomes "name #2", "name #N" becomes
\* "name #N+1" (N a number without leading zero).
avahi_alternative_service_name(s) ==
    LET h == LastHash(s, Len(s) - 1)
        t == IF h = 0 THEN "" ELSE SubSeq(s, h + 2, Len(s))
    IN  IF h # 0 /\ IsNumber(t) /\ SubSeq(t, 1, 1) # "0"
        THEN SubSeq(s, 1, h - 1) \o " #" \o ToString(Atoi(t) + 1)
        ELSE s \o " #2"

\* As rename_all_services, with slot 0 alone renamed.
rename_all_services_FirstOnly(c) ==
    [i \in Slots |-> IF c[i].name # NullName /\ i = 0
                     THEN [c[i] EXCEPT !.name = avahi_alternative_service_name(c[i].name)]
                     ELSE c[i]]

\* rename_all_services: every slot that has a name gets the alternative name.
rename_all_services(c) ==
    [i \in Slots |-> IF c[i].name # NullName
                     THEN [c[i] EXCEPT !.name = avahi_alternative_service_name(c[i].name)]
                     ELSE c[i]]

\* rename_all_services applied to a batch built by dns_sd_create_context, as the
\* handling of a group Collision notification applies it.
BuildRename ==
    /\ variant = "build"
    /\ apc \in {"built", "renamed"}
    /\ events < MaxEvents
    /\ events' = events + 1
    /\ ctx' = rename_all_services(ctx)
    /\ apc' = "renamed"
    /\ UNCHANGED <<cfgVars, count, ctxst, wpc, termVars, aVars, bVars>>
    /\ UNCHANGED <<submitted, collisions, reg, rel, staleUse, lateStale, crashed>>

NextRename == BuildCount \/ BuildCreate \/ BuildRename

SpecRename == InitBuild /\ [][NextRename]_vars

\* As TermInline, with a dns_sd_term that does nothing.
TermInline_Noop == quit

\* dns_sd_term called from a callback, on the thread that runs the callbacks:
\* the new value of the quit flag.
TermInline == IF simple_poll # "null" THEN TRUE ELSE quit

\* As ClOrder, with the names freed first.
ClOrder_NamesFirst == <<"cl_names", "cl_group", "cl_client", "cl_poll", "cl_ctx">>

\* The statements of cleanup(), in the order they are written.
ClOrder == <<"cl_group", "cl_client", "cl_poll", "cl_names", "cl_ctx">>

\* As ClNext, with dns_sd_announce going on to pthread_create after its cleanup().
ClNext_ThenStart(who, step) ==
    LET k == CHOOSE n \in 1 .. Len(ClOrder) : ClOrder[n] = step
    IN  IF k < Len(ClOrder) THEN ClOrder[k + 1]
        ELSE IF who = "caller" THEN "start" ELSE "stopped"

\* Where thread who goes after statement step of cleanup().
ClNext(who, step) ==
    LET k == CHOOSE n \in 1 .. Len(ClOrder) : ClOrder[n] = step
    IN  IF k < Len(ClOrder) THEN ClOrder[k + 1]
        ELSE IF who = "caller" THEN "returned" ELSE "stopped"

NoCallback == [pc |-> "none", i |-> 0, who |-> "none", tries |-> 0]

\* The thread that runs a callback or the teardown moves on.
SetPc(who, v) ==
    IF who = "caller" THEN apc' = v /\ UNCHANGED wpc
                      ELSE wpc' = v /\ UNCHANGED apc

\* Where a thread continues when its callback returns.
AfterCallback(who) == IF who = "caller" THEN "start" ELSE "prepare"

\* dns_sd_announce up to avahi_simple_poll_new() (ok: it succeeds).
A_AnnounceStart ==
    /\ Backend("A")
    /\ apc = "idle"
    /\ count' = dns_sd_service_count(mc)
    /\ IF NothingToAnnounce(mc)
       THEN /\ apc' = "returned"
            /\ UNCHANGED <<ctx, ctxst, simple_poll, pollObj>>
       ELSE /\ ctx' = dns_sd_create_context(mc, host)
            /\ ctxst' = "live"
            /\ \E ok \in BOOLEAN :
                   IF ok
                   THEN /\ pollObj' = "live"
                        /\ simple_poll' = "set"
                        /\ apc' = "client_new"
                   ELSE /\ apc' = ClOrder[1]
                        /\ UNCHANGED <<simple_poll, pollObj>>
    /\ UNCHANGED <<cfgVars, wpc, termVars, bVars, histVars>>
    /\ UNCHANGED <<quit, client, clientObj, group, groupObj, entries, gstate, cb>>

\* reg once client_callback has been called with a client state.
NotedClient(state) ==
    [reg EXCEPT !.cstate = state,
                !.resets = IF state \in {"COLLISION", "REGISTERING"} /\ group # "null"
                           THEN @ + 1 ELSE @]

\* As ClientCallback, with the group left as it is when the client is registering
\* or in collision.
ClientCallback_NoReset(state, who) ==
    CASE state = "RUNNING" ->
             /\ cb' = [pc |-> "cs_enter", i |-> 0, who |-> who, tries |-> 0]
             /\ SetPc(who, "callback")
             /\ UNCHANGED <<quit, entries, gstate>>
      [] state = "FAILURE" ->
             /\ quit' = TermInline
             /\ SetPc(who, AfterCallback(who))
             /\ UNCHANGED <<cb, entries, gstate>>
      [] OTHER ->
             /\ SetPc(who, AfterCallback(who))
             /\ UNCHANGED <<cb, quit, entries, gstate>>

\* As ClientCallback, with create_services entered while the client is registering
\* as well.
ClientCallback_CreateEarly(state, who) ==
    CASE state \in {"RUNNING", "REGISTERING"} ->
             /\ cb' = [pc |-> "cs_enter", i |-> 0, who |-> who, tries |-> 0]
             /\ SetPc(who, "callback")
             /\ UNCHANGED <<quit, entries, gstate>>
      [] state = "FAILURE" ->
             /\ quit' = TermInline
             /\ SetPc(who, AfterCallback(who))
             /\ UNCHANGED <<cb, entries, gstate>>
      [] state = "COLLISION" ->
             /\ IF group # "null"
                THEN entries' = {} /\ gstate' = "uncommitted"
                ELSE UNCHANGED <<entries, gstate>>
             /\ SetPc(who, AfterCallback(who))
             /\ UNCHANGED <<cb, quit>>
      [] OTHER ->
             /\ SetPc(who, AfterCallback(who))
             /\ UNCHANGED <<cb, quit, entries, gstate>>

\* As ClientCallback, with a failure of the client taken as nothing to do.
ClientCallback_FailureIgnored(state, who) ==
    CASE state = "RUNNING" ->
             /\ cb' = [pc |-> "cs_enter", i |-> 0, who |-> who, tries |-> 0]
             /\ SetPc(who, "callback")
             /\ UNCHANGED <<quit, entries, gstate>>
      [] state \in {"COLLISION", "REGISTERING"} ->
             /\ IF group # "null"
                THEN entries' = {} /\ gstate' = "uncommitted"
                ELSE UNCHANGED <<entries, gstate>>
             /\ SetPc(who, AfterCallback(who))
             /\ UNCHANGED <<cb, quit>>
      [] OTHER ->
             /\ SetPc(who, AfterCallback(who))
             /\ UNCHANGED <<cb, quit, entries, gstate>>

\* What client_callback does for a client state, on thread who.
ClientCallback(state, who) ==
    CASE state = "RUNNING" ->
             /\ cb' = [pc |-> "cs_enter", i |-> 0, who |-> who, tries |-> 0]
             /\ SetPc(who, "callback")
             /\ UNCHANGED <<quit, entries, gstate>>
      [] state = "FAILURE" ->
             /\ quit' = TermInline
             /\ SetPc(who, AfterCallback(who))
             /\ UNCHANGED <<cb, entries, gstate>>
      [] state \in {"COLLISION", "REGISTERING"} ->
             /\ IF group # "null"
                THEN entries' = {} /\ gstate' = "uncommitted"
                ELSE UNCHANGED <<entries, gstate>>
             /\ SetPc(who, AfterCallback(who))
             /\ UNCHANGED <<cb, quit>>
      [] OTHER ->
             /\ SetPc(who, AfterCallback(who))
             /\ UNCHANGED <<cb, quit, entries, gstate>>

\* avahi_client_new(): it fails, or it succeeds after having called
\* client_callback with the state the daemon is in.
A_ClientNew ==
    /\ Backend("A")
    /\ apc = "client_new"
    /\ \E outcome \in {"fail", "RUNNING", "REGISTERING", "COLLISION"} :
           IF outcome = "fail"
           THEN /\ apc' = ClOrder[1]
                /\ UNCHANGED <<wpc, clientObj, cb, quit, entries, gstate, reg>>
           ELSE /\ clientObj' = "live"
                /\ reg' = NotedClient(outcome)
                /\ ClientCallback(outcome, "caller")
    /\ UNCHANGED <<cfgVars, batchVars, termVars, bVars>>
    /\ UNCHANGED <<submitted, events, collisions, rel, staleUse, lateStale, crashed>>
    /\ UNCHANGED <<simple_poll, pollObj, client, group, groupObj>>

\* As A_Start, with the loop starting from a cleared quit flag.
A_Start_ClearsQuit ==
    /\ Backend("A")
    /\ apc = "start"
    /\ client' = "set"
    /\ wpc' = "prepare"
    /\ apc' = "returned"
    /\ quit' = FALSE
    /\ UNCHANGED <<cfgVars, batchVars, termVars, bVars, histVars>>
    /\ UNCHANGED <<simple_poll, pollObj, clientObj, group, groupObj, entries, gstate, cb>>

\* client = <the new client>; pthread_create(&avahi_thread, ...)
A_Start ==
    /\ Backend("A")
    /\ apc = "start"
    /\ client' = "set"
    /\ wpc' = "prepare"
    /\ apc' = "returned"
    /\ UNCHANGED <<cfgVars, batchVars, termVars, bVars, histVars>>
    /\ UNCHANGED <<simple_poll, pollObj, quit, clientObj, group, groupObj, entries, gstate, cb>>

\* As NextActive, with the loop left after the first active slot.
NextActive_FirstOnly(c, i) ==
    IF i < 0 /\ ActiveSlots(c) # {}
    THEN CHOOSE j \in ActiveSlots(c) : \A k \in ActiveSlots(c) : j <= k
    ELSE MAX_DNS_SD_SERVICES

\* The first active slot after slot i, MAX_DNS_SD_SERVICES when there is none:
\* the for loop of create_services with its "if (ctx[i].port == 0) continue".
NextActive(c, i) ==
    IF \E j \in ActiveSlots(c) : j > i
    THEN CHOOSE j \in ActiveSlots(c) : j > i /\ \A k \in ActiveSlots(c) : k > i => j <= k
    ELSE MAX_DNS_SD_SERVICES

\* Where create_services goes once the group is there: the first add of the loop
\* when the group is empty, otherwise it returns.
AfterGroupReady(g) ==
    IF g = {}
    THEN IF NextActive(ctx, -1) < MAX_DNS_SD_SERVICES
         THEN [cb EXCEPT !.pc = "add", !.i = NextActive(ctx, -1)]
         ELSE [cb EXCEPT !.pc = "commit"]
    ELSE NoCallback

\* As CS_Enter, with a new entry group made on every call.
CS_Enter_AlwaysNew ==
    /\ Backend("A")
    /\ cb.pc = "cs_enter"
    /\ \E ok \in BOOLEAN :
           IF ok
           THEN /\ groupObj' = "live"
                /\ group' = "set"
                /\ entries' = {}
                /\ gstate' = "uncommitted"
                /\ cb' = AfterGroupReady({})
                /\ reg' = [reg EXCEPT !.groups = @ + 1]
                /\ UNCHANGED <<quit, apc, wpc>>
           ELSE /\ quit' = TermInline
                /\ cb' = NoCallback
                /\ SetPc(cb.who, AfterCallback(cb.who))
                /\ UNCHANGED <<group, groupObj, entries, gstate, reg>>
    /\ UNCHANGED <<cfgVars, batchVars, termVars, bVars>>
    /\ UNCHANGED <<simple_poll, pollObj, client, clientObj>>
    /\ UNCHANGED <<submitted, events, collisions, rel, staleUse, lateStale, crashed>>

\* As CS_Enter, with an existing group not reset.
CS_Enter_NoReset ==
    /\ Backend("A")
    /\ cb.pc = "cs_enter"
    /\ IF group = "null"
       THEN \E ok \in BOOLEAN :
                IF ok
                THEN /\ groupObj' = "live"
                     /\ group' = "set"
                     /\ entries' = {}
                     /\ gstate' = "uncommitted"
                     /\ cb' = AfterGroupReady({})
                     /\ reg' = [reg EXCEPT !.groups = @ + 1]
                     /\ UNCHANGED <<quit, apc, wpc>>
                ELSE /\ quit' = TermInline
                     /\ cb' = NoCallback
                     /\ SetPc(cb.who, AfterCallback(cb.who))
                     /\ UNCHANGED <<group, groupObj, entries, gstate, reg>>
       ELSE /\ gstate' = "uncommitted"
            /\ cb' = AfterGroupReady({})
            /\ UNCHANGED <<quit, apc, wpc, group, groupObj, entries, reg>>
    /\ UNCHANGED <<cfgVars, batchVars, termVars, bVars>>
    /\ UNCHANGED <<simple_poll, pollObj, client, clientObj>>
    /\ UNCHANGED <<submitted, events, collisions, rel, staleUse, lateStale, crashed>>

\* The head of create_services: a new entry group when there is none (ok:
\* avahi_entry_group_new succeeds), a reset of the group otherwise.
CS_Enter ==
    /\ Backend("A")
    /\ cb.pc = "cs_enter"
    /\ IF group = "null"
       THEN \E ok \in BOOLEAN :
                IF ok
                THEN /\ groupObj' = "live"
                     /\ group' = "set"
                     /\ entries' = {}
                     /\ gstate' = "uncommitted"
                     /\ cb' = AfterGroupReady({})
                     /\ reg' = [reg EXCEPT !.groups = @ + 1]
                     /\ UNCHANGED <<quit, apc, wpc>>
                ELSE /\ quit' = TermInline
                     /\ cb' = NoCallback
                     /\ SetPc(cb.who, AfterCallback(cb.who))
                     /\ UNCHANGED <<group, groupObj, entries, gstate, reg>>
       ELSE /\ entries' = {}
            /\ gstate' = "uncommitted"
            /\ cb' = AfterGroupReady({})
            /\ UNCHANGED <<quit, apc, wpc, group, groupObj, reg>>
    /\ UNCHANGED <<cfgVars, batchVars, termVars, bVars>>
    /\ UNCHANGED <<simple_poll, pollObj, client, clientObj>>
    /\ UNCHANGED <<submitted, events, collisions, rel, staleUse, lateStale, crashed>>

\* create_service for slot cb.i: one avahi_entry_group_add_service call and what
\* follows from the daemon's answer r.  cb.tries counts the adds this call of
\* create_service has made before.
CS_Add ==
    /\ Backend("A")
    /\ cb.pc = "add"
    /\ LET i == cb.i
           e == [slot |-> i, type |-> ServiceType(i), name |-> ctx[i].name, port |-> ctx[i].port]
       IN  /\ submitted' = submitted \cup {e}
           /\ \E r \in {"OK", "COLLISION", "ERROR"} :
                  CASE r = "OK" ->
                           /\ entries' = entries \cup {e}
                           /\ cb' = IF NextActive(ctx, i) < MAX_DNS_SD_SERVICES
                                    THEN [cb EXCEPT !.i = NextActive(ctx, i), !.tries = 0]
                                    ELSE [cb EXCEPT !.pc = "commit", !.tries = 0]
                           /\ UNCHANGED <<ctx, collisions, reg, quit, apc, wpc>>
                    [] r = "COLLISION" ->
                           /\ collisions < MaxCollisions
                           /\ ctx' = [ctx EXCEPT ![i].name = avahi_alternative_service_name(ctx[i].name)]
                           /\ collisions' = collisions + 1
                           /\ reg' = [reg EXCEPT !.collided = @ \cup {i}]
                           /\ cb' = [cb EXCEPT !.tries = @ + 1]
                           /\ UNCHANGED <<entries, quit, apc, wpc>>
                    [] r = "ERROR" ->
                           /\ quit' = TermInline
                           /\ cb' = NoCallback
                           /\ SetPc(cb.who, AfterCallback(cb.who))
                           /\ reg' = [reg EXCEPT !.errors = @ + 1]
                           /\ UNCHANGED <<ctx, collisions, entries>>
    /\ UNCHANGED <<cfgVars, count, ctxst, termVars, bVars>>
    /\ UNCHANGED <<simple_poll, pollObj, client, clientObj, group, groupObj, gstate>>
    /\ UNCHANGED <<events, rel, staleUse, lateStale, crashed>>

\* avahi_entry_group_commit(group) (ok: it succeeds), the end of create_services.
CS_Commit ==
    /\ Backend("A")
    /\ cb.pc = "commit"
    /\ \E ok \in BOOLEAN :
           IF ok
           THEN gstate' = "registering" /\ UNCHANGED quit
           ELSE quit' = TermInline /\ UNCHANGED gstate
    /\ cb' = NoCallback
    /\ reg' = [reg EXCEPT !.commits = @ + 1]
    /\ SetPc(cb.who, AfterCallback(cb.who))
    /\ UNCHANGED <<cfgVars, batchVars, termVars, bVars>>
    /\ UNCHANGED <<simple_poll, pollObj, client, clientObj, group, groupObj, entries>>
    /\ UNCHANGED <<submitted, events, collisions, rel, staleUse, lateStale, crashed>>

\* As GroupCallback, with a collision that renames and leaves it at that.
GroupCallback_NoRecreate(state) ==
    CASE state = "ESTABLISHED" ->
             /\ gstate' = "established"
             /\ wpc' = "prepare"
             /\ UNCHANGED <<ctx, cb, quit>>
      [] state = "COLLISION" ->
             /\ ctx' = rename_all_services(ctx)
             /\ gstate' = "collision"
             /\ wpc' = "prepare"
             /\ UNCHANGED <<cb, quit>>
      [] state = "FAILURE" ->
             /\ quit' = TermInline
             /\ gstate' = "failure"
             /\ wpc' = "prepare"
             /\ UNCHANGED <<ctx, cb>>
      [] OTHER ->
             /\ wpc' = "prepare"
             /\ UNCHANGED <<ctx, cb, quit, gstate>>

\* What entry_group_callback does for a group state, on the event thread.
GroupCallback(state) ==
    CASE state = "ESTABLISHED" ->
             /\ gstate' = "established"
             /\ wpc' = "prepare"
             /\ UNCHANGED <<ctx, cb, quit>>
      [] state = "COLLISION" ->
             /\ ctx' = rename_all_services(ctx)
             /\ gstate' = "collision"
             /\ cb' = [pc |-> "cs_enter", i |-> 0, who |-> "worker", tries |-> 0]
             /\ wpc' = "callback"
             /\ UNCHANGED quit
      [] state = "FAILURE" ->
             /\ quit' = TermInline
             /\ gstate' = "failure"
             /\ wpc' = "prepare"
             /\ UNCHANGED <<ctx, cb>>
      [] OTHER ->
             /\ wpc' = "prepare"
             /\ UNCHANGED <<ctx, cb, quit, gstate>>

\* The notifications the daemon can send for the entry group: none before the
\* group is committed.
GroupEvents ==
    IF groupObj = "live" /\ gstate \in {"registering", "established"}
    THEN {"ESTABLISHED", "COLLISION", "FAILURE"}
    ELSE {}

ClientEvents == {"RUNNING", "REGISTERING", "COLLISION", "FAILURE"}

\* As A_Prepare, with the quit flag not looked at.
A_Prepare_IgnoreQuit ==
    /\ Backend("A")
    /\ wpc = "prepare"
    /\ wpc' = "poll"
    /\ UNCHANGED <<cfgVars, batchVars, apc, termVars, aVars, bVars, histVars>>

\* avahi_simple_poll_loop, start of an iteration: the loop ends when the quit flag
\* is set, otherwise it waits in poll().
A_Prepare ==
    /\ Backend("A")
    /\ wpc = "prepare"
    /\ wpc' = IF quit THEN ClOrder[1] ELSE "poll"
    /\ UNCHANGED <<cfgVars, batchVars, apc, termVars, aVars, bVars, histVars>>

\* poll() returns because avahi_simple_poll_quit woke it.
A_Wakeup ==
    /\ Backend("A")
    /\ wpc = "poll"
    /\ quit
    /\ wpc' = "prepare"
    /\ UNCHANGED <<cfgVars, batchVars, apc, termVars, aVars, bVars, histVars>>

\* poll() returns with a notification for the client, which the loop dispatches.
A_DispatchClient ==
    /\ Backend("A")
    /\ wpc = "poll"
    /\ events < MaxEvents
    /\ events' = events + 1
    /\ \E e \in ClientEvents :
           /\ reg' = NotedClient(e)
           /\ ClientCallback(e, "worker")
    /\ UNCHANGED <<cfgVars, batchVars, termVars, bVars>>
    /\ UNCHANGED <<simple_poll, pollObj, client, clientObj, group, groupObj>>
    /\ UNCHANGED <<submitted, collisions, rel, staleUse, lateStale, crashed>>

\* poll() returns with a notification for the entry group.
A_DispatchGroup ==
    /\ Backend("A")
    /\ wpc = "poll"
    /\ events < MaxEvents
    /\ events' = events + 1
    /\ \E e \in GroupEvents : GroupCallback(e)
    /\ UNCHANGED <<cfgVars, count, ctxst, apc, termVars, bVars>>
    /\ UNCHANGED <<simple_poll, pollObj, client, clientObj, group, groupObj, entries>>
    /\ UNCHANGED <<submitted, collisions, reg, rel, staleUse, lateStale, crashed>>

\* The thread that is in cleanup() at step pc: the caller of dns_sd_announce after
\* a failed setup, or the event thread after its loop.
InCleanup(who, pc) == IF who = "caller" THEN apc = pc ELSE wpc = pc

\* if (group) { avahi_entry_group_free(group); group = NULL; }
CleanupGroup(who) ==
    /\ Backend("A")
    /\ InCleanup(who, "cl_group")
    /\ IF group # "null"
       THEN /\ groupObj' = "freed"
            /\ group' = "null"
            /\ entries' = {}
            /\ rel' = rel \o <<Release("group", -1, who)>>
       ELSE UNCHANGED <<groupObj, group, entries, rel>>
    /\ SetPc(who, ClNext(who, "cl_group"))
    /\ UNCHANGED <<cfgVars, batchVars, termVars, bVars>>
    /\ UNCHANGED <<simple_poll, pollObj, quit, client, clientObj, gstate, cb>>
    /\ UNCHANGED <<submitted, events, collisions, reg, staleUse, lateStale, crashed>>

\* if (client) { avahi_client_free(client); client = NULL; }
CleanupClient(who) ==
    /\ Backend("A")
    /\ InCleanup(who, "cl_client")
    /\ IF client # "null"
       THEN /\ clientObj' = "freed"
            /\ client' = "null"
            /\ rel' = rel \o <<Release("client", -1, who)>>
       ELSE UNCHANGED <<clientObj, client, rel>>
    /\ SetPc(who, ClNext(who, "cl_client"))
    /\ UNCHANGED <<cfgVars, batchVars, termVars, bVars>>
    /\ UNCHANGED <<simple_poll, pollObj, quit, group, groupObj, entries, gstate, cb>>
    /\ UNCHANGED <<submitted, events, collisions, reg, staleUse, lateStale, crashed>>

\* As CleanupPoll, with the poll object left alone.
CleanupPoll_Skip(who) ==
    /\ Backend("A")
    /\ InCleanup(who, "cl_poll")
    /\ SetPc(who, ClNext(who, "cl_poll"))
    /\ UNCHANGED <<cfgVars, batchVars, termVars, aVars, bVars, histVars>>

\* if (simple_poll) { avahi_simple_poll_free(simple_poll); simple_poll = NULL; }
CleanupPoll(who) ==
    /\ Backend("A")
    /\ InCleanup(who, "cl_poll")
    /\ IF simple_poll # "null"
       THEN /\ pollObj' = "freed"
            /\ simple_poll' = "null"
            /\ rel' = rel \o <<Release("simple_poll", -1, who)>>
       ELSE UNCHANGED <<pollObj, simple_poll, rel>>
    /\ SetPc(who, ClNext(who, "cl_poll"))
    /\ UNCHANGED <<cfgVars, batchVars, termVars, bVars>>
    /\ UNCHANGED <<quit, client, clientObj, group, groupObj, entries, gstate, cb>>
    /\ UNCHANGED <<submitted, events, collisions, reg, staleUse, lateStale, crashed>>

\* for (...) if (ctx[i].name) avahi_free(ctx[i].name);
CleanupNames(who) ==
    /\ Backend("A")
    /\ InCleanup(who, "cl_names")
    /\ rel' = rel \o ReleaseEach("name", NamedSlots(ctx), who)
    /\ SetPc(who, ClNext(who, "cl_names"))
    /\ UNCHANGED <<cfgVars, batchVars, termVars, aVars, bVars>>
    /\ UNCHANGED <<submitted, events, collisions, reg, staleUse, lateStale, crashed>>

\* free(ctx); cleanup returns and so does the thread's function.
CleanupCtx(who) ==
    /\ Backend("A")
    /\ InCleanup(who, "cl_ctx")
    /\ rel' = rel \o <<Release("ctx", -1, who)>>
    /\ ctxst' = "freed"
    /\ SetPc(who, ClNext(who, "cl_ctx"))
    /\ UNCHANGED <<cfgVars, count, ctx, termVars, aVars, bVars>>
    /\ UNCHANGED <<submitted, events, collisions, reg, staleUse, lateStale, crashed>>

cleanup(who) ==
    \/ CleanupGroup(who)
    \/ CleanupClient(who)
    \/ CleanupPoll(who)
    \/ CleanupNames(who)
    \/ CleanupCtx(who)

A_CallerCleanup == cleanup("caller")

A_WorkerCleanup == cleanup("worker")

A_Callback == CS_Enter \/ CS_Add \/ CS_Commit

A_Caller == A_AnnounceStart \/ A_ClientNew \/ A_Start \/ A_CallerCleanup

A_Worker == A_Prepare \/ A_Wakeup \/ A_WorkerCleanup

A_Daemon == A_DispatchClient \/ A_DispatchGroup

NextA == A_Caller \/ A_Callback \/ A_Worker \/ A_Daemon

T_Term == T_Check \/ T_Quit \/ T_Write

Next == NextA \/ NextB \/ T_Term

Spec == Init /\ [][Next]_vars

\* The sessions of Spec, over the configurations of WideConfigs.
SpecWide == InitWide /\ [][Next]_vars

\* The threads run: each one takes its next step when it can.  The caller of
\* dns_sd_announce and the event thread are never both able to step (the thread is
\* created by the caller's last step), so one condition covers the two; the other
\* covers a call of dns_sd_term that has begun.  The calls of dns_sd_term from
\* outside, the daemon's notifications, and the failures of select() with its
\* timeout of SELECT_TIMEOUT = 100000000 seconds, are not owed to anybody.
SessionStep == A_Caller \/ A_Callback \/ A_Worker \/ B_Announce \/ B_Worker

Fairness == WF_vars(SessionStep) /\ WF_vars(T_Quit \/ T_Write)

FairSpec == Spec /\ Fairness

\* ================================================================= claims

\* The event thread is in its wait loop (or in a callback the loop dispatched).
A_InLoop == wpc \in {"prepare", "poll", "callback"}

\* Number of releases of object obj for slot idx in the release log.
Releases(obj, idx) == Cardinality({k \in 1 .. Len(rel) : rel[k].obj = obj /\ rel[k].idx = idx})

\* A step of the thread that calls dns_sd_term from outside.
TermStep == tcalls' # tcalls \/ tpc' # tpc

\* dns_sd_announce has not been called, or has returned early.
NoSession == apc = "idle" \/ (apc = "returned" /\ ctxst = "none")

C1_TermCalledOnceB == Backend("B") /\ tcalls = 1 /\ tpc = "idle" /\ tbegan = "live"

C1_StoppedAndReleasedB == wpc = "stopped" /\ \A i \in Slots : sd_ref[i] # "live"

\* C1.  Variant B: once a call of dns_sd_term, made after dns_sd_announce returned
\* with its thread started, is completed, the event thread eventually is Stopped
\* with every registration handle it created released (unless dns_sd_term is called
\* a second time).
C1_TermStopsWorkerB == C1_TermCalledOnceB ~> (C1_StoppedAndReleasedB \/ tcalls > 1)

C2_TermCalledOnceA ==
    /\ Backend("A")
    /\ apc = "returned"
    /\ A_InLoop
    /\ events = 0
    /\ tcalls = 1
    /\ tpc = "idle"
    /\ quit

C2_StoppedAndReleasedA ==
    /\ wpc = "stopped"
    /\ groupObj # "live"
    /\ clientObj = "freed"
    /\ pollObj = "freed"
    /\ simple_poll = "null"

C2_NoDispatchAfterExit ==
    (wpc # "none" /\ ~A_InLoop) => (events' = events /\ cb' = cb /\ cb.pc = "none")

\* C2.  Variant A: once dns_sd_term has been called, with the event thread in its
\* loop and no daemon notification dispatched yet, the thread eventually is Stopped
\* with group, client and poll object released (unless dns_sd_term is called a
\* second time); and once the thread has left its loop no notification is
\* dispatched and no callback runs.
C2_TermStopsWorkerA ==
    /\ C2_TermCalledOnceA ~> (C2_StoppedAndReleasedA \/ tcalls > 1)
    /\ [][Backend("A") => C2_NoDispatchAfterExit]_vars

C2_Witness ==
    /\ variant = "A"
    /\ C2_StoppedAndReleasedA
    /\ groupObj = "freed"
    /\ gstate = "registering"
    /\ events = 0
    /\ tcalls = 1
    /\ tbegan = "live"
    /\ ~staleUse

\* C3.  A call of dns_sd_term that begins after the session is Stopped never
\* operates on a poll object or descriptor that the teardown released.
C3_TermAfterStoppedIsNoop == ~lateStale

\* C4.  While dns_sd_announce has not been called, or has returned early because
\* nothing is configured, a step of dns_sd_term ends the call at its test and
\* leaves the whole session state unchanged.
C4_TermWithoutSessionIsNoop ==
    [][(NoSession /\ TermStep) =>
          (tpc' = "idle" /\ UNCHANGED <<batchVars, apc, wpc, aVars, bVars, histVars>>)]_vars

C4_Witness == NoSession /\ apc = "returned" /\ tcalls = MaxTermCalls /\ stop_fd[1] = -1

AllPortsZero == mc.agwpe_port = 0 /\ \A i \in KissIdx : mc.kiss_port[i] = 0

\* C5.  With the AGWPE port and every KISS port zero, dns_sd_announce allocates no
\* batch, creates no poll object, client or group, registers nothing and starts no
\* thread.
C5_NothingConfiguredNothingDone ==
    AllPortsZero =>
        /\ ctxst = "none"
        /\ wpc = "none"
        /\ pollObj = "none" /\ clientObj = "none" /\ groupObj = "none"
        /\ \A i \in Slots : sd_ref[i] = "null"
        /\ submitted = {}
        /\ apc \in {"idle", "returned"}

C5_Witness == AllPortsZero /\ apc = "returned" /\ count = 0

\* C6.  Right after dns_sd_create_context the names of the active slots are
\* pairwise distinct.
C6_ActiveNamesDistinct ==
    apc = "built" =>
        \A i, j \in ActiveSlots(ctx) : i # j => ctx[i].name # ctx[j].name

NonZeroPorts ==
    (IF mc.agwpe_port # 0 THEN 1 ELSE 0) + Cardinality({i \in KissIdx : mc.kiss_port[i] # 0})

\* C7.  With N non-zero ports configured, the batch has N slots with a port, the
\* other MAX_DNS_SD_SERVICES - N slots have port 0 and no name, and
\* dns_sd_service_count returns N.
C7_SlotCounts ==
    apc = "built" =>
        /\ Cardinality(ActiveSlots(ctx)) = NonZeroPorts
        /\ Cardinality({i \in Slots : ctx[i].port = 0 /\ ctx[i].name = NullName})
               = MAX_DNS_SD_SERVICES - NonZeroPorts
        /\ count = NonZeroPorts

C7_Witness ==
    /\ apc = "built"
    /\ mc.agwpe_port # 0
    /\ Cardinality(ActiveSlots(ctx)) = 2
    /\ ctx[1].port # 0
    /\ mc.kiss_port[0] = 0

\* dns_sd_announce runs cleanup() itself, or has done so.
SetupFailed ==
    /\ variant = "A"
    /\ \/ apc \in {ClOrder[k] : k \in 1 .. Len(ClOrder)}
       \/ apc = "returned" /\ \E k \in 1 .. Len(rel) : rel[k].who = "caller"

NoDoubleRelease ==
    \A k, l \in 1 .. Len(rel) :
        (k # l) => (rel[k].obj # rel[l].obj \/ rel[k].idx # rel[l].idx)

\* C8.  Variant A: when avahi_simple_poll_new or avahi_client_new fails,
\* dns_sd_announce runs the teardown itself: no event thread is started, no
\* notification is ever dispatched, nothing is released twice, and when it returns
\* the batch, its names and the poll object (when created) have each been released
\* exactly once.
C8_SetupFailureReleasesOnce ==
    SetupFailed =>
        /\ wpc = "none"
        /\ events = 0
        /\ NoDoubleRelease
        /\ apc = "returned" =>
               /\ Releases("ctx", -1) = 1 /\ ctxst = "freed"
               /\ \A i \in Slots : Releases("name", i) = (IF ctx[i].name # NullName THEN 1 ELSE 0)
               /\ pollObj # "live" /\ simple_poll = "null"
               /\ Releases("simple_poll", -1) = (IF pollObj = "freed" THEN 1 ELSE 0)
               /\ clientObj # "live" /\ groupObj # "live"

C8_Witness ==
    /\ SetupFailed
    /\ apc = "returned"
    /\ pollObj = "freed"
    /\ Releases("name", 0) = 1

\* The place of an object in the order of teardown; 0 for the objects the order
\* does not speak of (the handle table svcs, the stop pipe).
Rank(obj) ==
    CASE obj \in {"group", "sd_ref"} -> 1
      [] obj \in {"client", "simple_poll"} -> 2
      [] obj = "name" -> 3
      [] obj = "ctx" -> 4
      [] OTHER -> 0

\* C9.  In the order of releases, registration and group handles come before the
\* client and the poll object, these before the name strings, and these before the
\* batch.
C9_ReleaseOrder ==
    \A k, l \in 1 .. Len(rel) :
        (k < l /\ Rank(rel[k].obj) # 0 /\ Rank(rel[l].obj) # 0)
            => Rank(rel[k].obj) <= Rank(rel[l].obj)

C9_Witness ==
    /\ variant = "A"
    /\ wpc = "stopped"
    /\ Releases("group", -1) = 1
    /\ Releases("client", -1) = 1
    /\ Releases("simple_poll", -1) = 1
    /\ Releases("name", 0) = 1
    /\ Releases("ctx", -1) = 1

\* The objects that have been released.
FreedObjects ==
    <<{i \in Slots : sd_ref[i] = "freed"},
      {o \in {"simple_poll", "client", "group", "ctx", "stop_fd"} :
        \/ o = "simple_poll" /\ pollObj = "freed"
        \/ o = "client" /\ clientObj = "freed"
        \/ o = "group" /\ groupObj = "freed"
        \/ o = "ctx" /\ ctxst = "freed"
        \/ o = "stop_fd" /\ pipeObj = "closed"}>>

\* The event thread is started and has not left its loop.
Loops == {"populate", "pipe", "select", "prepare", "poll", "callback"}

C11_AddAttemptsBounded == cb.pc = "add" => cb.tries < MaxCollisions

\* The services an entry group holds when every active slot of batch c has been
\* added under its name in c.
GroupOf(c) ==
    {[slot |-> i, type |-> ServiceType(i), name |-> c[i].name, port |-> c[i].port] :
        i \in ActiveSlots(c)}

\* The event thread begins to handle a Collision notification for the group.
C12_GroupCollisionStep == Backend("A") /\ gstate # "collision" /\ gstate' = "collision"

\* The new cycle is complete: every active slot is in the group under its current
\* name and the group has been committed again.
C12_Recommitted == gstate = "registering" /\ reg.commits >= 2 /\ entries = GroupOf(ctx)

\* The new cycle was given up: an add or the commit failed, and termination is
\* requested.
C12_RoundFailed == cb.pc = "none" /\ gstate = "uncommitted" /\ quit

\* C12.  Variant A: a Collision notification for the group replaces the name of
\* every active slot by its alternative and enters create_services on the event
\* thread; the step that follows empties the group; and from there the thread, by
\* itself, adds every active slot under its new name and commits the group again,
\* unless an add or the commit fails.
C12_GroupCollisionRecreates ==
    /\ [][C12_GroupCollisionStep =>
            /\ \A i \in ActiveSlots(ctx) :
                   /\ ctx'[i].name = avahi_alternative_service_name(ctx[i].name)
                   /\ ctx'[i].name # ctx[i].name
            /\ cb'.pc = "cs_enter"
            /\ cb'.who = "worker"
            /\ wpc' = "callback"]_vars
    /\ [][(gstate = "collision" /\ gstate' # "collision") =>
            (entries' = {} /\ cb'.pc \in {"add", "commit"} /\ submitted' = submitted)]_vars
    /\ (Backend("A") /\ gstate = "collision") ~> (C12_Recommitted \/ C12_RoundFailed)

C12_Witness ==
    /\ C12_Recommitted
    /\ reg.collided = {}
    /\ Cardinality(ActiveSlots(ctx)) >= 2
    /\ \A i \in ActiveSlots(ctx) :
           ctx[i].name = avahi_alternative_service_name(dns_sd_create_context(mc, host)[i].name)

\* C13.  rename_all_services gives every active slot the alternative of the name
\* it had, a name different from it, and leaves the inert slots (port == 0) and
\* the port and channel of every slot as they were.
C13_RenameAllFrame ==
    [][(variant = "build" /\ events' # events) =>
          \A i \in Slots :
              /\ ctx'[i].port = ctx[i].port
              /\ ctx'[i].channel = ctx[i].channel
              /\ ctx[i].port = 0 => ctx'[i] = ctx[i]
              /\ ctx[i].port # 0 =>
                     /\ ctx'[i].name = avahi_alternative_service_name(ctx[i].name)
                     /\ ctx'[i].name # ctx[i].name]_vars

C13_Witness ==
    /\ variant = "build"
    /\ apc = "renamed"
    /\ events = 2
    /\ Cardinality(ActiveSlots(ctx)) >= 2
    /\ \E j \in Slots : ctx[j].port = 0 /\ ctx[j].name = NullName
    /\ \E i \in ActiveSlots(ctx) :
           ctx[i].name = dns_sd_create_context(mc, host)[i].name \o " #3"

\* The daemon has answered the first add of slot 0 with a collision, every other
\* add with success, and its one notification has been that the group is
\* established.
C14_PrimaryCollidedOnce ==
    /\ Backend("A")
    /\ 0 \in ActiveSlots(ctx)
    /\ collisions = 1
    /\ reg.collided = {0}
    /\ events = 1
    /\ ~quit
    /\ gstate = "established"

\* C14.  Variant A: in such a run one commit has been issued, the group holds one
\* entry for each active slot, under pairwise distinct names, slot 0 under the
\* alternative of the name it was built with and the others under the names they
\* were built with.
C14_CollisionThenEstablished ==
    C14_PrimaryCollidedOnce =>
        /\ reg.commits = 1
        /\ entries = GroupOf(ctx)
        /\ \A i \in ActiveSlots(ctx) : Cardinality({e \in entries : e.slot = i}) = 1
        /\ \A e, f \in entries : e.slot # f.slot => e.name # f.name
        /\ \A i \in ActiveSlots(ctx) :
               ctx[i].name = IF i = 0
                             THEN avahi_alternative_service_name(dns_sd_create_context(mc, host)[0].name)
                             ELSE dns_sd_create_context(mc, host)[i].name

C14_Witness == C14_PrimaryCollidedOnce /\ Cardinality(entries) >= 2 /\ reg.commits = 1

\* An add is answered with an error other than a collision.
C15_AddErrorStep == Backend("A") /\ reg'.errors # reg.errors

\* C15.  Variant A: the step in which an add is answered with an error other
\* than a collision is the last of its round: it requests termination, adds
\* nothing to the group, no other slot is added after it and no commit is issued,
\* the callback is over and the group stays uncommitted.
C15_AddErrorAbortsRound ==
    [][C15_AddErrorStep =>
          /\ quit'
          /\ entries' = entries
          /\ reg'.commits = reg.commits
          /\ gstate' = "uncommitted"
          /\ cb' = NoCallback
          /\ \A e \in submitted' \ submitted : e.slot = cb.i
          /\ IF cb.who = "caller" THEN apc' = "start" ELSE wpc' = "prepare"]_vars

C15_Witness ==
    /\ variant = "A"
    /\ reg.errors = 1
    /\ quit
    /\ entries # {}
    /\ entries # GroupOf(ctx)
    /\ gstate = "uncommitted"
    /\ wpc = ClOrder[1]
    /\ tcalls = 0

\* An add is answered with a collision.
C16_AddCollisionStep == Backend("A") /\ collisions' # collisions

\* C16.  Variant A: the step in which the add of slot i is answered with a
\* collision gives slot i the alternative of its name, a different name, keeps
\* its port and channel and every other slot as they were, adds nothing to the
\* group, and stays at the add of slot i; and every add submits the slot under
\* the name it has at that moment.
C16_AddCollisionRenamesOneSlot ==
    /\ [][C16_AddCollisionStep =>
            /\ cb.pc = "add"
            /\ ctx'[cb.i].name = avahi_alternative_service_name(ctx[cb.i].name)
            /\ ctx'[cb.i].name # ctx[cb.i].name
            /\ ctx'[cb.i].port = ctx[cb.i].port
            /\ ctx'[cb.i].channel = ctx[cb.i].channel
            /\ \A j \in Slots \ {cb.i} : ctx'[j] = ctx[j]
            /\ entries' = entries
            /\ cb'.pc = "add"
            /\ cb'.i = cb.i
            /\ cb'.who = cb.who]_vars
    /\ [][(Backend("A") /\ cb.pc = "add") =>
            \A e \in submitted' \ submitted :
                e.slot = cb.i /\ e.name = ctx[cb.i].name /\ e.port = ctx[cb.i].port]_vars

C16_Witness ==
    /\ variant = "A"
    /\ cb.pc = "add"
    /\ cb.i = 1
    /\ cb.tries = 1
    /\ reg.collided = {1}
    /\ 0 \in ActiveSlots(ctx)
    /\ ctx[0].name = dns_sd_create_context(mc, host)[0].name
    /\ ctx[1].name = avahi_alternative_service_name(dns_sd_create_context(mc, host)[1].name)
    /\ Cardinality(entries) = 1

\* The event thread handles a Failure notification, for the group or for the
\* client.
C17_FailureStep ==
    /\ Backend("A")
    /\ \/ gstate # "failure" /\ gstate' = "failure"
       \/ events' # events /\ reg'.cstate = "FAILURE"

\* A Failure notification has been handled.
C17_Failed == Backend("A") /\ (gstate = "failure" \/ reg.cstate = "FAILURE")

\* C17.  Variant A: the handling of a Failure notification, for the group or for
\* the client, requests termination and neither renames a slot nor adds or
\* commits anything; after it nothing is renamed, added, committed or dispatched
\* any more, and the event thread eventually is Stopped with group, client and
\* poll object released (unless a dns_sd_term call from outside gets to the poll
\* object after the teardown released it).
C17_FailureTerminates ==
    /\ [][C17_FailureStep =>
            /\ quit'
            /\ ctx' = ctx
            /\ entries' = entries
            /\ submitted' = submitted
            /\ reg'.commits = reg.commits
            /\ cb' = NoCallback
            /\ wpc' = "prepare"]_vars
    /\ [][C17_Failed =>
            /\ ctx' = ctx
            /\ submitted' = submitted
            /\ reg'.commits = reg.commits
            /\ events' = events
            /\ cb' = NoCallback]_vars
    /\ C17_Failed ~> (C2_StoppedAndReleasedA \/ staleUse)

C17_Witness ==
    /\ variant = "A"
    /\ wpc = "stopped"
    /\ reg.cstate = "FAILURE"
    /\ gstate = "established"
    /\ reg.commits = 1
    /\ pollObj = "freed"
    /\ tcalls = 0

\* client_callback is called with a client state: from avahi_client_new or by the
\* event loop.
C18_ClientNotified == Backend("A") /\ (A_DispatchClient \/ (A_ClientNew /\ clientObj' = "live"))

\* The client is registering or in collision.
C18_ClientHeld == Backend("A") /\ reg.cstate \in {"REGISTERING", "COLLISION"}

\* create_services has ended without a commit that succeeded, and termination is
\* requested.
C18_RoundGivenUp == cb.pc = "none" /\ quit /\ gstate \in {"none", "uncommitted"}

\* C18.  Variant A: a Registering or Collision notification of the client empties
\* the group when there is one, and adds and commits nothing; nothing is added or
\* committed as long as the client stays so; a Running notification enters
\* create_services, which then adds every active slot under its current name and
\* commits the group, unless creating the group, an add or the commit fails.
C18_ClientResetThenReadd ==
    /\ [][(C18_ClientNotified /\ reg'.cstate \in {"REGISTERING", "COLLISION"}) =>
            /\ group # "null" => (entries' = {} /\ gstate' = "uncommitted")
            /\ group = "null" => (entries' = entries /\ gstate' = gstate)
            /\ UNCHANGED <<ctx, group, groupObj, cb, submitted, quit>>
            /\ reg'.commits = reg.commits]_vars
    /\ [][(C18_ClientHeld /\ reg'.cstate = reg.cstate) =>
            (UNCHANGED <<ctx, entries, submitted>> /\ reg'.commits = reg.commits)]_vars
    /\ [][(C18_ClientNotified /\ reg'.cstate = "RUNNING") =>
            (cb'.pc = "cs_enter" /\ UNCHANGED <<ctx, entries, submitted>>)]_vars
    /\ (Backend("A") /\ cb.pc = "cs_enter" /\ reg.cstate = "RUNNING")
           ~> ((gstate = "registering" /\ entries = GroupOf(ctx)) \/ C18_RoundGivenUp)

C18_Witness ==
    /\ variant = "A"
    /\ reg.resets = 1
    /\ reg.cstate = "RUNNING"
    /\ events = 2
    /\ reg.commits = 2
    /\ gstate = "registering"
    /\ entries = GroupOf(ctx)
    /\ Cardinality(entries) >= 2
    /\ ctx = dns_sd_create_context(mc, host)

\* C19.  Variant A: the entry group comes into being only in create_services
\* entered for a Running notification of the client, with the client still in
\* that state; and while the client has never been Running there is no group.
C19_GroupCreatedOnlyWhenRunning ==
    /\ [][(Backend("A") /\ ((group = "null" /\ group' # "null")
                             \/ (groupObj # "live" /\ groupObj' = "live"))) =>
            /\ reg.cstate = "RUNNING"
            /\ reg'.cstate = "RUNNING"
            /\ cb.pc = "cs_enter"
            /\ group' = "set" /\ groupObj' = "live" /\ entries' = {}]_vars
    /\ [](Backend("A") /\ reg.cstate = "CONNECTING" => group = "null" /\ groupObj = "none")

C19_Witness ==
    /\ variant = "A"
    /\ group = "set"
    /\ groupObj = "live"
    /\ reg.cstate = "RUNNING"
    /\ events = 2
    /\ reg.commits = 0
    /\ ~quit
    /\ cb.pc = "add"
    /\ cb.who = "worker"

\* The group holds at most one entry for a slot, and each under the name and
\* port the slot has.
C20_EntriesCurrent ==
    /\ \A e, f \in entries : e.slot = f.slot => e = f
    /\ \A e \in entries :
           /\ e.slot \in ActiveSlots(ctx)
           /\ e.name = ctx[e.slot].name
           /\ e.port = ctx[e.slot].port

RECURSIVE KissPortsFrom(_)
KissPortsFrom(i) ==
    IF i >= MAX_KISS_TCP_PORTS THEN <<>>
    ELSE (IF mc.kiss_port[i] # 0 THEN <<mc.kiss_port[i]>> ELSE <<>>) \o KissPortsFrom(i + 1)

\* The port slot j of the batch is to hold: the AGWPE port (or none) in slot 0,
\* the j-th non-zero KISS port in slot j, none once they are used up.
SlotPort(j) ==
    IF j = 0 THEN mc.agwpe_port
    ELSE IF j <= Len(KissPortsFrom(0)) THEN KissPortsFrom(0)[j]
    ELSE 0

\* C21.  In both backends nothing is submitted to the daemon for a slot with
\* port 0, slot 0 is submitted as the AGWPE service only and the slots from 1 on
\* as KISS services only; the batch holds the AGWPE port or nothing in slot 0,
\* never a KISS port, and the non-zero KISS ports in slots 1, 2, ... in
\* configured order without a gap.
C21_SlotKinds ==
    /\ \A e \in submitted :
           /\ e.port # 0
           /\ e.port = SlotPort(e.slot)
           /\ e.type = (IF e.slot = 0 THEN DNS_SD_TYPE_AGWPE ELSE DNS_SD_TYPE_KISS)
    /\ ctxst # "none" => \A j \in Slots : ctx[j].port = SlotPort(j)

\* No AGWPE port and the first KISS port not configured: the second KISS port
\* has been submitted from slot 1, slot 0 is left out.
C21_Witness ==
    /\ mc.agwpe_port = 0
    /\ mc.kiss_port[0] = 0
    /\ mc.kiss_port[1] # 0
    /\ ctx[0].port = 0
    /\ \E e \in submitted : e.slot = 1 /\ e.port = mc.kiss_port[1]
    /\ \A e \in submitted : e.slot # 0
    /\ Stopped

\* The calls of DNSServiceRegister issued for slot i.
IssuedFor(i) == {k \in 1 .. Len(reg.issued) : reg.issued[k].slot = i}

\* C22.  B: once dns_sd_announce has gone through a batch, exactly one
\* DNSServiceRegister call has been issued for each slot with a port and none for
\* the others, the calls were issued in slot order, a slot has a handle in
\* sd_ref exactly when its call succeeded, and the event thread has been started
\* whatever the calls returned.
C22_OneCallPerActiveSlot ==
    (variant = "B" /\ apc = "returned" /\ ctxst # "none") =>
        /\ \A i \in Slots :
               /\ Cardinality(IssuedFor(i)) = (IF ctx[i].port # 0 THEN 1 ELSE 0)
               /\ sd_ref[i] # "null" <=> \E k \in IssuedFor(i) : reg.issued[k].ok
        /\ \A k, l \in 1 .. Len(reg.issued) : k < l => reg.issued[k].slot < reg.issued[l].slot
        /\ wpc # "none"

\* The call for slot 0 failed: the call for slot 1 was issued all the same and
\* succeeded, slot 1 alone is tracked, and the event thread is running.
C22_Witness ==
    /\ variant = "B"
    /\ apc = "returned"
    /\ Len(reg.issued) = 2
    /\ ~reg.issued[1].ok
    /\ reg.issued[1].slot = 0
    /\ reg.issued[2].ok
    /\ sd_ref[0] = "null"
    /\ sd_ref[1] = "live"
    /\ wpc = "select"

\* C23.  B: a pass of the loop in which select() reports the stop descriptor
\* ready hands no registration handle to DNSServiceProcessResult, whichever
\* handles are ready as well: their events stay unread, and the thread goes to
\* its clean up.
C23_StopPassDispatchesNothing ==
    [][(B_SelectPass /\ StopReady) =>
           /\ lastPass'.stop
           /\ lastPass'.dispatched = {}
           /\ pending' = pending
           /\ wpc' = "cleanup_refs"]_vars

\* The stop descriptor and a registration handle were ready in the same pass:
\* nothing was dispatched, the event is still unread, the thread has finished.
C23_Witness ==
    /\ variant = "B"
    /\ lastPass.stop
    /\ lastPass.ready # {}
    /\ lastPass.dispatched = {}
    /\ pending = lastPass.ready
    /\ wpc = "stopped"

\* C24.  B: in a pass of the loop in which DNSServiceProcessResult reports an error
\* for a ready registration handle, every handle that was ready in that pass is
\* dispatched, those after the failing one included, and the thread goes to its
\* clean up without another select().
C24_ErrorPassDrains ==
    [][(B_SelectPass /\ lastPass'.errs # {}) =>
           /\ ~lastPass'.stop
           /\ lastPass'.ready = ReadySlots
           /\ lastPass'.dispatched = ReadySlots
           /\ pending' \cap ReadySlots = {}
           /\ wpc' = "cleanup_refs"]_vars

\* Two handles were ready, the first one reported an error, the second one was
\* dispatched all the same, and the thread has finished.
C24_Witness ==
    /\ variant = "B"
    /\ Cardinality(lastPass.ready) = 2
    /\ \E i \in lastPass.ready : lastPass.errs = {i} /\ \A j \in lastPass.ready : i <= j
    /\ lastPass.dispatched = lastPass.ready
    /\ pending = {}
    /\ wpc = "stopped"

\* C25.  A call of dns_sd_term that began while the session was live uses the
\* handle it tested (the poll object in A, the write end of the stop pipe in B)
\* only while the event thread's teardown has not released it.
C25_TermUsesLiveHandle ==
    [][((T_Quit \/ T_Write) /\ tbegan = "live") =>
           (IF variant = "A" THEN pollObj = "live" ELSE pipeObj = "open")]_vars

\* The steps of cleanup().
ClSteps == {ClOrder[k] : k \in 1 .. Len(ClOrder)}

\* C26.  A: in a session that built a batch cleanup() runs at most once: on the
\* thread of dns_sd_announce when the setup failed, and then no event thread is
\* ever started, or on the event thread after its loop, and then dns_sd_announce
\* has returned without running it.  All releases are made by one thread, the
\* batch is freed at most once, and no handle, name or batch is released twice.
C26_CleanupAtMostOnce ==
    (variant = "A" /\ ctxst # "none") =>
        /\ \A k, l \in 1 .. Len(rel) : rel[k].who = rel[l].who
        /\ (apc \in ClSteps \/ \E k \in 1 .. Len(rel) : rel[k].who = "caller") => wpc = "none"
        /\ (wpc \in ClSteps \cup {"stopped"}) => apc = "returned"
        /\ Releases("ctx", -1) <= 1
        /\ (ctxst = "freed") <=> (Releases("ctx", -1) = 1)
        /\ \A k, l \in 1 .. Len(rel) :
               (rel[k].obj = rel[l].obj /\ rel[k].idx = rel[l].idx) => k = l

\* The event thread has run cleanup() to its end: the group, the client, the poll
\* object, a name and the batch have each been released once, all by that thread.
C26_Witness ==
    /\ variant = "A"
    /\ wpc = "stopped"
    /\ apc = "returned"
    /\ Releases("group", -1) = 1
    /\ Releases("client", -1) = 1
    /\ Releases("simple_poll", -1) = 1
    /\ Releases("name", 0) = 1
    /\ Releases("ctx", -1) = 1
    /\ \A k \in 1 .. Len(rel) : rel[k].who = "worker"

\* avahi_client_new has returned the client and the quit flag is already set:
\* dns_sd_term was called by client_callback or create_services on the thread of
\* dns_sd_announce.
C27_QuitBeforeStart == variant = "A" /\ apc = "start" /\ quit

\* C27.  A: when termination was requested by a callback during a construction of
\* the client that succeeded, the event thread is started all the same, finds the
\* quit flag at the head of its first iteration and leaves the loop there, never
\* waiting in poll(), and runs cleanup() to its end without any notification of
\* the daemon having been dispatched (unless a concurrent dns_sd_term on the freed
\* poll object brings the process down).
C27_EarlyQuitNotLost ==
    /\ C27_QuitBeforeStart ~> ((wpc = "stopped" /\ events = 0) \/ crashed)
    /\ [][(C27_QuitBeforeStart /\ apc' # apc) => (wpc' = "prepare" /\ quit')]_vars
    /\ [][(wpc = "prepare" /\ quit /\ wpc' # wpc) => wpc' = ClOrder[1]]_vars

\* An add failed inside avahi_client_new, nobody else called dns_sd_term and the
\* daemon sent nothing: the event thread was started and has freed the client.
C27_Witness ==
    /\ variant = "A"
    /\ reg.errors = 1
    /\ tcalls = 0
    /\ events = 0
    /\ quit
    /\ wpc = "stopped"
    /\ clientObj = "freed"
    /\ \A k \in 1 .. Len(rel) : rel[k].who = "worker"

\* C28.  A: the assertion at the head of entry_group_callback holds whenever the
\* callback runs: avahi_entry_group_new is called only while no group is recorded,
\* a group notification is dispatched only for the group that is recorded, and a
\* session creates at most one entry group, which group points to until cleanup()
\* frees it.
C28_GroupAssertionHolds ==
    /\ [](reg.groups <= 1 /\ (group # "null" => groupObj = "live"))
    /\ [][(reg'.groups # reg.groups) => (group = "null" /\ groupObj = "none")]_vars
    /\ [][A_DispatchGroup => (group # "null" /\ groupObj = "live" /\ reg.groups = 1)]_vars

\* The group was committed, collided, was committed again and is established:
\* the callback ran twice and create_services twice, on the one group.
C28_Witness ==
    /\ variant = "A"
    /\ reg.groups = 1
    /\ reg.commits = 2
    /\ gstate = "established"
    /\ group = "set"
    /\ groupObj = "live"

====
